---------------------------- MODULE Spec2Model ----------------------------
(***************************************************************************)
(* Model of src/agents/pi-embedded-runner/run/audio.ts: the detection of   *)
(* audio references in a prompt (detectAudioReferences), the loading of    *)
(* one reference (loadAudioFromRef) and the batch orchestration            *)
(* (detectAndLoadPromptAudio).                                             *)
(*                                                                         *)
(* Text is a sequence of lexemes.  A lexeme is a string that stands for    *)
(* the characters it spells: " " is one whitespace character, "a" and "A"  *)
(* are letters, ".wav" ".WAV" ".txt" are a dot followed by letters,        *)
(* "file://" and "http://" are URL schemes, "[media attached:" is the      *)
(* opening of a structured marker and "2 files" is the text "2 files".     *)
(* The regular expressions of the source are written as matchers over      *)
(* these lexemes; POSIX path conventions are assumed.                      *)
(***************************************************************************)
EXTENDS Integers, Sequences, FiniteSets, TLC

VARIABLES mode, params, pc, st, refs, idx, ref, targetPath, ret,
          promptAudio, loadedCount, skippedCount, result, calls, rets

vars == <<mode, params, pc, st, refs, idx, ref, targetPath, ret,
          promptAudio, loadedCount, skippedCount, result, calls, rets>>

\* ------------------------------------------------------------------------
\* Bounds
\* ------------------------------------------------------------------------

\* pieces of text a scanned prompt is made of (detection specification)
MaxPieces == 3

\* pieces of text a prompt of a batch call is made of
MaxBatchPieces == 2

Min(S) == CHOOSE x \in S : \A y \in S : x <= y

Max(S) == CHOOSE x \in S : \A y \in S : x >= y

\* ------------------------------------------------------------------------
\* Strings
\* ------------------------------------------------------------------------

Lower(c) == CASE c = "A" -> "a" [] c = ".WAV" -> ".wav" [] OTHER -> c

toLowerCase(s) == [i \in DOMAIN s |-> Lower(s[i])]

IsSpace(c) == c = " "

RECURSIVE trimStart(_)
trimStart(s) == IF s # <<>> /\ IsSpace(Head(s)) THEN trimStart(Tail(s)) ELSE s

RECURSIVE trimEnd(_)
trimEnd(s) ==
    IF s # <<>> /\ IsSpace(s[Len(s)]) THEN trimEnd(SubSeq(s, 1, Len(s) - 1)) ELSE s

trim(s) == trimEnd(trimStart(s))

AUDIO_EXTENSIONS ==
    {".mp3", ".wav", ".aac", ".flac", ".ogg", ".opus", ".m4a", ".mp4", ".mpeg",
     ".mpga", ".webm"}

\* the alternation (?:mp3|wav|...) after an escaped dot, under the i flag
ExtAlternation(c) ==
    Lower(c) \in {".mp3", ".wav", ".aac", ".flac", ".ogg", ".opus", ".m4a", ".mp4",
                  ".mpeg", ".mpga", ".webm"}

\* lexemes that spell a dot followed by letters
DotLexemes == {".wav", ".WAV", ".txt"}

\* path.extname: the part of the basename from its last dot on, "" when the
\* basename starts with that dot
extname(p) ==
    IF Len(p) >= 2 /\ p[Len(p)] \in DotLexemes /\ p[Len(p) - 1] # "/"
    THEN p[Len(p)]
    ELSE ""

isAudioExtension(filePath) == Lower(extname(filePath)) \in AUDIO_EXTENSIONS

\* ------------------------------------------------------------------------
\* Paths
\* ------------------------------------------------------------------------

HomeDir == <<"/", "home">>

ProcessCwd == <<"/", "cwd">>

isAbsolute(p) == p # <<>> /\ p[1] = "/"

\* one step of path normalisation: acc.segs are the segments kept so far,
\* acc.cur is the segment being read
NormStep(acc, c) ==
    IF c # "/" THEN [acc EXCEPT !.cur = Append(acc.cur, c)]
    ELSE IF acc.cur = <<>> \/ acc.cur = <<".">> THEN [acc EXCEPT !.cur = <<>>]
    ELSE IF acc.cur = <<".", ".">>
         THEN [segs |-> IF acc.segs = <<>> THEN <<>>
                        ELSE SubSeq(acc.segs, 1, Len(acc.segs) - 1),
               cur |-> <<>>]
    ELSE [segs |-> Append(acc.segs, acc.cur), cur |-> <<>>]

RECURSIVE NormFold(_, _)
NormFold(acc, p) == IF p = <<>> THEN acc ELSE NormFold(NormStep(acc, Head(p)), Tail(p))

RECURSIVE JoinSegs(_)
JoinSegs(segs) ==
    IF segs = <<>> THEN <<>> ELSE <<"/">> \o Head(segs) \o JoinSegs(Tail(segs))

\* an absolute path without ".", ".." and empty segments
normalizeAbs(p) ==
    LET acc == NormFold([segs |-> <<>>, cur |-> <<>>], Append(p, "/"))
    IN IF acc.segs = <<>> THEN <<"/">> ELSE JoinSegs(acc.segs)

\* path.resolve(root, p) on POSIX; an empty root stands for the process cwd
resolve(root, p) ==
    IF isAbsolute(p) THEN normalizeAbs(p)
    ELSE IF isAbsolute(root) THEN normalizeAbs(root \o <<"/">> \o p)
    ELSE normalizeAbs(ProcessCwd \o <<"/">> \o root \o <<"/">> \o p)

\* expansion of a leading home marker
resolveUserPath(p) ==
    IF p # <<>> /\ p[1] = "~" /\ (Len(p) = 1 \/ p[2] = "/")
    THEN normalizeAbs(HomeDir \o Tail(p))
    ELSE resolve(ProcessCwd, p)

\* url.fileURLToPath on POSIX: a file URL with a host is rejected, the
\* pathname has its dot segments removed
fileURLToPath(raw) ==
    IF Len(raw) >= 2 /\ raw[1] = "file://" /\ raw[2] = "/"
    THEN [ok |-> TRUE, path |-> normalizeAbs(Tail(raw))]
    ELSE [ok |-> FALSE, path |-> <<>>]

\* ------------------------------------------------------------------------
\* detectAudioReferences
\* ------------------------------------------------------------------------

EmptySt == [refs |-> <<>>, seen |-> {}]

\* addPathRef without the check of seen
addPathRefNoSeenCheck(s, raw) ==
    LET trimmed == trim(raw) IN
    IF trimmed = <<>> THEN s
    ELSE IF trimmed[1] = "http://" \/ trimmed[1] = "https://" THEN s
    ELSE IF ~isAudioExtension(trimmed) THEN s
    ELSE [refs |-> Append(s.refs,
                          [raw |-> trimmed, type |-> "path",
                           resolved |-> IF trimmed[1] = "~"
                                        THEN resolveUserPath(trimmed)
                                        ELSE trimmed]),
          seen |-> s.seen \cup {toLowerCase(trimmed)}]

\* addPathRef with a seen set keyed by the raw value as written
addPathRefCaseSensitive(s, raw) ==
    LET trimmed == trim(raw) IN
    IF trimmed = <<>> \/ trimmed \in s.seen THEN s
    ELSE IF trimmed[1] = "http://" \/ trimmed[1] = "https://" THEN s
    ELSE IF ~isAudioExtension(trimmed) THEN s
    ELSE [refs |-> Append(s.refs,
                          [raw |-> trimmed, type |-> "path",
                           resolved |-> IF trimmed[1] = "~"
                                        THEN resolveUserPath(trimmed)
                                        ELSE trimmed]),
          seen |-> s.seen \cup {trimmed}]

addPathRef(s, raw) ==
    LET trimmed == trim(raw) IN
    IF trimmed = <<>> \/ toLowerCase(trimmed) \in s.seen THEN s
    ELSE IF trimmed[1] = "http://" \/ trimmed[1] = "https://" THEN s
    ELSE IF ~isAudioExtension(trimmed) THEN s
    ELSE [refs |-> Append(s.refs,
                          [raw |-> trimmed, type |-> "path",
                           resolved |-> IF trimmed[1] = "~"
                                        THEN resolveUserPath(trimmed)
                                        ELSE trimmed]),
          seen |-> s.seen \cup {toLowerCase(trimmed)}]

\* --- /\[media attached(?:\s+\d+\/\d+)?:\s*([^\]]+)\]/gi

\* the first "]" after position i, 0 when there is none
NextClose(s, i) ==
    LET js == {j \in (i + 1)..Len(s) : s[j] = "]"} IN IF js = {} THEN 0 ELSE Min(js)

MarkerMatches(s, i) == s[i] = "[media attached:" /\ NextClose(s, i) > i + 1

LeadingSpaces(s) == Len(s) - Len(trimStart(s))

\* group 1: \s* is greedy but leaves one character to [^\]]+
MarkerContent(s, i) ==
    LET region == SubSeq(s, i + 1, NextClose(s, i) - 1)
        w == LeadingSpaces(region)
        m == IF w = Len(region) THEN w - 1 ELSE w
    IN SubSeq(region, m + 1, Len(region))

\* /^\d+\s+files?$/i
IsFilesPlaceholder(t) == t = <<"2 files">>

\* \s*(?:\(|$|\|) after position k
PathMatchFollow(c, k) ==
    LET rest == trimStart(SubSeq(c, k + 1, Len(c)))
    IN rest = <<>> \/ rest[1] = "(" \/ rest[1] = "|"

\* group 1 of /^\s*(.+?\.(?:mp3|...))\s*(?:\(|$|\|)/i, <<>> when no match:
\* the longest run of leading whitespace, then the shortest text
pathMatch(c) ==
    LET w == LeadingSpaces(c)
        cands == {mk \in (0..w) \X (1..Len(c)) :
                     /\ mk[2] >= mk[1] + 2
                     /\ ExtAlternation(c[mk[2]])
                     /\ PathMatchFollow(c, mk[2])}
    IN IF cands = {} THEN <<>>
       ELSE LET m == Max({mk[1] : mk \in cands})
                k == Min({mk[2] : mk \in {x \in cands : x[1] = m}})
            IN SubSeq(c, m + 1, k)

MarkerBody(s, content) ==
    IF IsFilesPlaceholder(trim(content)) THEN s
    ELSE IF pathMatch(content) # <<>> THEN addPathRef(s, trim(pathMatch(content)))
    ELSE s

RECURSIVE MarkerLoop(_, _, _)
MarkerLoop(text, pos, s) ==
    LET starts == {i \in pos..Len(text) : MarkerMatches(text, i)} IN
    IF starts = {} THEN s
    ELSE MarkerLoop(text, NextClose(text, Min(starts)) + 1,
                    MarkerBody(s, MarkerContent(text, Min(starts))))

\* --- /file:\/\/[^\s<>"'`\]]+\.(?:mp3|...)/gi

\* lexemes all of whose characters are in [^\s<>"'`\]]
UrlChar(c) == c \notin {" ", "]", "[media attached:", "2 files"}

\* the last position of the run of such lexemes that starts at from
RECURSIVE UrlRunEnd(_, _)
UrlRunEnd(s, from) ==
    IF from <= Len(s) /\ UrlChar(s[from]) THEN UrlRunEnd(s, from + 1) ELSE from - 1

\* the end of the match that starts at i, 0 when there is none
UrlMatchEnd(s, i) ==
    LET ks == {k \in (i + 2)..UrlRunEnd(s, i + 1) : ExtAlternation(s[k])}
    IN IF s[i] = "file://" /\ ks # {} THEN Max(ks) ELSE 0

UrlBody(s, raw) ==
    IF toLowerCase(raw) \in s.seen THEN s
    ELSE IF fileURLToPath(raw).ok
         THEN [refs |-> Append(s.refs, [raw |-> raw, type |-> "path",
                                        resolved |-> fileURLToPath(raw).path]),
               seen |-> s.seen \cup {toLowerCase(raw)}]
         ELSE [s EXCEPT !.seen = s.seen \cup {toLowerCase(raw)}]

RECURSIVE UrlLoop(_, _, _)
UrlLoop(text, pos, s) ==
    LET starts == {i \in pos..Len(text) : UrlMatchEnd(text, i) > 0} IN
    IF starts = {} THEN s
    ELSE LET i == Min(starts) IN
         UrlLoop(text, UrlMatchEnd(text, i) + 1,
                 UrlBody(s, SubSeq(text, i, UrlMatchEnd(text, i))))

\* --- /(?:^|\s|["'`(])((\.\.?\/|[~/])[^\s"'`()[\]]*\.(?:mp3|...))/gi

Boundary(c) == c \in {" ", "("}

\* length of (\.\.?\/|[~/]) at p, 0 when it does not match
PrefixLen(s, p) ==
    IF p + 1 <= Len(s) /\ s[p] = "." /\ s[p + 1] = "/" THEN 2
    ELSE IF p + 2 <= Len(s) /\ s[p] = "." /\ s[p + 1] = "." /\ s[p + 2] = "/" THEN 3
    ELSE IF s[p] \in {"~", "/"} THEN 1
    ELSE 0

\* lexemes all of whose characters are in [^\s"'`()[\]]
PathChar(c) == c \notin {" ", "(", "]", "[media attached:", "2 files"}

\* the last position of the run of such lexemes that starts at from
RECURSIVE PathRunEnd(_, _)
PathRunEnd(s, from) ==
    IF from <= Len(s) /\ PathChar(s[from]) THEN PathRunEnd(s, from + 1) ELSE from - 1

\* the end of group 1 when it starts at p, 0 when there is no match
PathMatchEnd(s, p) ==
    LET n == PrefixLen(s, p)
        ks == {k \in (p + n)..PathRunEnd(s, p + n) : ExtAlternation(s[k])}
    IN IF n > 0 /\ ks # {} THEN Max(ks) ELSE 0

\* group 1 may start at p when the scan is at pos
PathStartOk(s, pos, p) ==
    /\ (p = 1 /\ pos = 1) \/ (p - 1 >= pos /\ Boundary(s[p - 1]))
    /\ PathMatchEnd(s, p) > 0

RECURSIVE PathLoop(_, _, _)
PathLoop(text, pos, s) ==
    LET starts == {p \in 1..Len(text) : PathStartOk(text, pos, p)} IN
    IF starts = {} THEN s
    ELSE LET p == Min(starts) IN
         PathLoop(text, PathMatchEnd(text, p) + 1,
                  addPathRef(s, SubSeq(text, p, PathMatchEnd(text, p))))

detectAudioReferences(prompt) ==
    PathLoop(prompt, 1, UrlLoop(prompt, 1, MarkerLoop(prompt, 1, EmptySt))).refs

\* ------------------------------------------------------------------------
\* Values
\* ------------------------------------------------------------------------

\* an optional value: None is undefined
Some(v) == [some |-> TRUE, val |-> v]

None == [some |-> FALSE, val |-> <<>>]

\* loadAudioFromRef's null, and the value of a local that is not set yet
Null == [type |-> "null"]

Pending == [type |-> "pending"]

NoResult == [status |-> "pending"]

\* the call ended with an error raised to its caller
Thrown == [status |-> "threw"]

\* Buffer.toString("base64")
base64(buffer) == <<"base64">> \o buffer

includes(list, x) == \E i \in DOMAIN list : list[i] = x

\* modelSupportsAudio that accepts any model that declares its inputs
modelSupportsAudioAnyInput(model) == model.input.some

modelSupportsAudio(model) ==
    (model.input.some /\ includes(model.input.val, "audio"))
    \/ (model.input.some /\ includes(model.input.val, "image"))
    \/ FALSE

\* a non-empty string
Truthy(opt) == opt.some /\ opt.val # <<>>

\* ------------------------------------------------------------------------
\* External primitives: the outcomes a call can have
\* ------------------------------------------------------------------------

Inside(p, root) ==
    \/ p = root
    \/ /\ Len(p) > Len(root) + 1
       /\ SubSeq(p, 1, Len(root)) = root
       /\ p[Len(root) + 1] = "/"

\* assertSandboxPath({filePath, cwd, root}): it fails (traversal out of the
\* root, a symlink, a canonicalization error) or returns a canonical path
\* inside the root, which need not be the path it was given
AssertOutcomes(filePath, cwd, root) ==
    LET p == resolve(cwd, filePath)
        r == normalizeAbs(root)
    IN {[ok |-> FALSE, resolved |-> <<>>]}
       \cup (IF Inside(p, r)
             THEN {[ok |-> TRUE, resolved |-> q] : q \in {p, r \o <<"/", "real", ".wav">>}}
             ELSE {})

\* loadWebMedia(path, maxBytes) when it returns: the kind it sniffed, the
\* content type when it found one, and the bytes of the file at that path
MediaOutcomes(path) ==
    {[kind |-> kc[1], contentType |-> kc[2], buffer |-> <<"bytes of">> \o path] :
        kc \in {<<"audio", Some(<<"audio/wav">>)>>, <<"audio", None>>,
                <<"video", Some(<<"video/mp4">>)>>, <<"image", Some(<<"image/png">>)>>}}

\* ------------------------------------------------------------------------
\* Inputs
\* ------------------------------------------------------------------------

Pieces ==
    {<<" ">>, <<"(">>, <<"|">>,
     <<"/", "a", ".wav">>, <<"/", "A", ".WAV">>, <<"/", "a", ".txt">>, <<"/", ".wav">>,
     <<"~", "/", "a", ".wav">>, <<".", "/", "a", ".wav">>, <<".", ".", "/", "a", ".wav">>,
     <<"file://", "/", "a", ".wav">>, <<"file://", "a", "/", "a", ".wav">>,
     <<"[media attached:", " ", "/", "a", ".wav", " ", "(", "a", "]">>,
     <<"[media attached:", "file://", "/", "a", ".wav", "]">>,
     <<"[media attached:", "http://", "a", ".wav", "|", "]">>,
     <<"[media attached:", " ", "2 files", "]">>}

BatchPieces ==
    {<<" ", ".", "/", "a", ".wav">>, <<" ", ".", ".", "/", "a", ".wav">>,
     <<" ", "/", "sb", "/", "A", ".wav">>, <<" ", "a", ".txt">>}

RECURSIVE Texts(_, _)
Texts(pieces, n) ==
    IF n = 0 THEN {<<>>}
    ELSE Texts(pieces, n - 1) \cup {t \o p : t \in Texts(pieces, n - 1), p \in pieces}

WorkspaceDir == <<"/", "ws">>

SandboxRoots == {None, Some(<<>>), Some(<<"/", "sb">>)}

Models ==
    {[input |-> None], [input |-> Some(<<"text">>)],
     [input |-> Some(<<"text", "image">>)], [input |-> Some(<<"audio">>)]}

Carried == [type |-> "audio", data |-> base64(<<"carried">>), mimeType |-> <<"audio/ogg">>]

ExistingAudios == {None, Some(<<Carried>>)}

\* references handed to loadAudioFromRef by a caller other than the batch
DirectRefs ==
    {[raw |-> <<"http://", "a", ".wav">>, type |-> "url",
      resolved |-> <<"http://", "a", ".wav">>],
     [raw |-> <<"a", ".wav">>, type |-> "path", resolved |-> <<"a", ".wav">>],
     [raw |-> <<"/", "sb", "/", ".", ".", "/", "a", ".wav">>, type |-> "path",
      resolved |-> <<"/", "sb", "/", ".", ".", "/", "a", ".wav">>],
     [raw |-> <<"/", "sb", "/", "a", ".wav">>, type |-> "path",
      resolved |-> <<"/", "sb", "/", "a", ".wav">>]}

NoRef == [raw |-> <<>>, type |-> "none", resolved |-> <<>>]

Locals ==
    /\ st = EmptySt
    /\ refs = <<>>
    /\ idx = 1
    /\ targetPath = <<>>
    /\ ret = Pending
    /\ promptAudio = <<>>
    /\ loadedCount = 0
    /\ skippedCount = 0
    /\ result = NoResult
    /\ calls = <<>>
    /\ rets = <<>>

InitBatch ==
    /\ mode = "batch"
    /\ params \in [prompt : Texts(BatchPieces, MaxBatchPieces),
                   workspaceDir : {WorkspaceDir},
                   model : Models,
                   existingAudio : ExistingAudios,
                   sandboxRoot : SandboxRoots]
    /\ pc = "start"
    /\ ref = NoRef
    /\ Locals

InitDirect ==
    /\ mode = "direct"
    /\ params \in [prompt : {<<>>},
                   workspaceDir : {WorkspaceDir},
                   model : {[input |-> None]},
                   existingAudio : {None},
                   sandboxRoot : SandboxRoots]
    /\ pc = "enter"
    /\ ref \in DirectRefs
    /\ Locals

Init == InitBatch \/ InitDirect

InitDetect ==
    /\ mode = "detect"
    /\ params \in [prompt : Texts(Pieces, MaxPieces),
                   workspaceDir : {WorkspaceDir},
                   model : {[input |-> None]},
                   existingAudio : {None},
                   sandboxRoot : {None}]
    /\ pc = "scanMarkers"
    /\ ref = NoRef
    /\ Locals

\* ------------------------------------------------------------------------
\* detectAudioReferences, one step per pattern
\* ------------------------------------------------------------------------

ScanMarkers ==
    /\ pc = "scanMarkers"
    /\ st' = MarkerLoop(params.prompt, 1, st)
    /\ pc' = "scanFileUrls"
    /\ UNCHANGED <<mode, params, refs, idx, ref, targetPath, ret, promptAudio,
                   loadedCount, skippedCount, result, calls, rets>>

ScanFileUrls ==
    /\ pc = "scanFileUrls"
    /\ st' = UrlLoop(params.prompt, 1, st)
    /\ pc' = "scanPaths"
    /\ UNCHANGED <<mode, params, refs, idx, ref, targetPath, ret, promptAudio,
                   loadedCount, skippedCount, result, calls, rets>>

ScanPaths ==
    /\ pc = "scanPaths"
    /\ st' = PathLoop(params.prompt, 1, st)
    /\ refs' = st'.refs
    /\ pc' = "detected"
    /\ UNCHANGED <<mode, params, idx, ref, targetPath, ret, promptAudio,
                   loadedCount, skippedCount, result, calls, rets>>

NextDetect == ScanMarkers \/ ScanFileUrls \/ ScanPaths

SpecDetect == InitDetect /\ [][NextDetect]_vars

\* ------------------------------------------------------------------------
\* detectAndLoadPromptAudio
\* ------------------------------------------------------------------------

Call(fn, path, cwd, root, ok, out) ==
    [fn |-> fn, idx |-> idx, path |-> path, cwd |-> cwd, root |-> root,
     ok |-> ok, out |-> out]

OkResult(audio, loaded, skipped) ==
    [status |-> "ok", audio |-> audio, loadedCount |-> loaded, skippedCount |-> skipped]

\* params.existingAudio ?? []
ExistingOrEmpty == IF params.existingAudio.some THEN params.existingAudio.val ELSE <<>>

\* the model does not qualify: an empty result, nothing is scanned
GateReject ==
    /\ mode = "batch" /\ pc = "start"
    /\ ~modelSupportsAudio(params.model)
    /\ result' = OkResult(<<>>, 0, 0)
    /\ pc' = "done"
    /\ UNCHANGED <<mode, params, st, refs, idx, ref, targetPath, ret, promptAudio,
                   loadedCount, skippedCount, calls, rets>>

\* no reference in the prompt: the carried audio is returned as it is
ReturnNoRefs ==
    /\ mode = "batch" /\ pc = "start"
    /\ modelSupportsAudio(params.model)
    /\ detectAudioReferences(params.prompt) = <<>>
    /\ refs' = <<>>
    /\ result' = OkResult(ExistingOrEmpty, 0, 0)
    /\ pc' = "done"
    /\ UNCHANGED <<mode, params, st, idx, ref, targetPath, ret, promptAudio,
                   loadedCount, skippedCount, calls, rets>>

BeginLoop ==
    /\ mode = "batch" /\ pc = "start"
    /\ modelSupportsAudio(params.model)
    /\ detectAudioReferences(params.prompt) # <<>>
    /\ refs' = detectAudioReferences(params.prompt)
    /\ promptAudio' = ExistingOrEmpty
    /\ loadedCount' = 0
    /\ skippedCount' = 0
    /\ idx' = 1
    /\ pc' = "loop"
    /\ UNCHANGED <<mode, params, st, ref, targetPath, ret, result, calls, rets>>

\* the loop takes the next reference and calls loadAudioFromRef
CallLoader ==
    /\ mode = "batch" /\ pc = "loop"
    /\ idx <= Len(refs)
    /\ ref' = refs[idx]
    /\ ret' = Pending
    /\ pc' = "enter"
    /\ UNCHANGED <<mode, params, st, refs, idx, targetPath, promptAudio,
                   loadedCount, skippedCount, result, calls, rets>>

\* LoopReturn that leaves the loop at the first reference that fails
LoopReturnAbortOnFailure ==
    /\ mode = "batch" /\ pc = "returned"
    /\ IF ret # Null
       THEN /\ promptAudio' = Append(promptAudio, ret)
            /\ loadedCount' = loadedCount + 1
            /\ idx' = idx + 1
            /\ UNCHANGED skippedCount
       ELSE /\ skippedCount' = skippedCount + 1
            /\ idx' = Len(refs) + 1
            /\ UNCHANGED <<promptAudio, loadedCount>>
    /\ rets' = Append(rets, [ref |-> ref, ret |-> ret])
    /\ pc' = "loop"
    /\ UNCHANGED <<mode, params, st, refs, ref, targetPath, ret, result, calls>>

\* LoopReturn that puts the loaded content in front of the accumulated ones
LoopReturnPrepend ==
    /\ mode = "batch" /\ pc = "returned"
    /\ IF ret # Null
       THEN /\ promptAudio' = <<ret>> \o promptAudio
            /\ loadedCount' = loadedCount + 1
            /\ UNCHANGED skippedCount
       ELSE /\ skippedCount' = skippedCount + 1
            /\ UNCHANGED <<promptAudio, loadedCount>>
    /\ rets' = Append(rets, [ref |-> ref, ret |-> ret])
    /\ idx' = idx + 1
    /\ pc' = "loop"
    /\ UNCHANGED <<mode, params, st, refs, ref, targetPath, ret, result, calls>>

\* the loader returned: the reference counts as loaded or as skipped
LoopReturn ==
    /\ mode = "batch" /\ pc = "returned"
    /\ IF ret # Null
       THEN /\ promptAudio' = Append(promptAudio, ret)
            /\ loadedCount' = loadedCount + 1
            /\ UNCHANGED skippedCount
       ELSE /\ skippedCount' = skippedCount + 1
            /\ UNCHANGED <<promptAudio, loadedCount>>
    /\ rets' = Append(rets, [ref |-> ref, ret |-> ret])
    /\ idx' = idx + 1
    /\ pc' = "loop"
    /\ UNCHANGED <<mode, params, st, refs, ref, targetPath, ret, result, calls>>

LoopExit ==
    /\ mode = "batch" /\ pc = "loop"
    /\ idx > Len(refs)
    /\ result' = OkResult(promptAudio, loadedCount, skippedCount)
    /\ pc' = "done"
    /\ UNCHANGED <<mode, params, st, refs, idx, ref, targetPath, ret, promptAudio,
                   loadedCount, skippedCount, calls, rets>>

\* ------------------------------------------------------------------------
\* loadAudioFromRef
\* ------------------------------------------------------------------------

\* what the loader leaves alone
LoaderFrame ==
    UNCHANGED <<mode, params, st, refs, idx, ref, promptAudio, loadedCount,
                skippedCount, result, rets>>

\* return from loadAudioFromRef
Return(v) == ret' = v /\ pc' = "returned"

RejectUrl ==
    /\ pc = "enter"
    /\ ref.type = "url"
    /\ Return(Null)
    /\ UNCHANGED <<targetPath, calls>>
    /\ LoaderFrame

\* options?.sandboxRoot ?? workspaceDir
ResolveRoot ==
    IF params.sandboxRoot.some THEN params.sandboxRoot.val ELSE params.workspaceDir

ResolvePath ==
    /\ pc = "enter"
    /\ ref.type = "path"
    /\ targetPath' = IF ~isAbsolute(ref.resolved)
                     THEN resolve(ResolveRoot, ref.resolved)
                     ELSE ref.resolved
    /\ pc' = IF Truthy(params.sandboxRoot) THEN "assert" ELSE "stat"
    /\ UNCHANGED <<ret, calls>>
    /\ LoaderFrame

\* AssertResolved that goes on with the path it submitted
AssertResolvedKeepsPath ==
    /\ pc = "assert"
    /\ \E o \in AssertOutcomes(targetPath, params.sandboxRoot.val,
                               params.sandboxRoot.val) :
          /\ o.ok
          /\ calls' = Append(calls, Call("assertSandboxPath", targetPath,
                                         params.sandboxRoot.val,
                                         params.sandboxRoot.val, TRUE, o.resolved))
    /\ pc' = "stat"
    /\ UNCHANGED <<targetPath, ret>>
    /\ LoaderFrame

AssertResolved ==
    /\ pc = "assert"
    /\ \E o \in AssertOutcomes(targetPath, params.sandboxRoot.val,
                               params.sandboxRoot.val) :
          /\ o.ok
          /\ calls' = Append(calls, Call("assertSandboxPath", targetPath,
                                         params.sandboxRoot.val,
                                         params.sandboxRoot.val, TRUE, o.resolved))
          /\ targetPath' = o.resolved
    /\ pc' = "stat"
    /\ UNCHANGED ret
    /\ LoaderFrame

\* AssertRejected that logs the rejection and goes on to the existence probe
AssertRejectedGoesOn ==
    /\ pc = "assert"
    /\ \E o \in AssertOutcomes(targetPath, params.sandboxRoot.val,
                               params.sandboxRoot.val) :
          /\ ~o.ok
          /\ calls' = Append(calls, Call("assertSandboxPath", targetPath,
                                         params.sandboxRoot.val,
                                         params.sandboxRoot.val, FALSE, <<>>))
    /\ pc' = "stat"
    /\ UNCHANGED <<targetPath, ret>>
    /\ LoaderFrame

AssertRejected ==
    /\ pc = "assert"
    /\ \E o \in AssertOutcomes(targetPath, params.sandboxRoot.val,
                               params.sandboxRoot.val) :
          /\ ~o.ok
          /\ calls' = Append(calls, Call("assertSandboxPath", targetPath,
                                         params.sandboxRoot.val,
                                         params.sandboxRoot.val, FALSE, <<>>))
    /\ Return(Null)
    /\ UNCHANGED targetPath
    /\ LoaderFrame

StatFound ==
    /\ pc = "stat"
    /\ calls' = Append(calls, Call("stat", targetPath, <<>>, <<>>, TRUE, <<>>))
    /\ pc' = "load"
    /\ UNCHANGED <<targetPath, ret>>
    /\ LoaderFrame

StatMissing ==
    /\ pc = "stat"
    /\ calls' = Append(calls, Call("stat", targetPath, <<>>, <<>>, FALSE, <<>>))
    /\ Return(Null)
    /\ UNCHANGED targetPath
    /\ LoaderFrame

\* media.contentType ?? "audio/mp3"
MimeType(media) == IF media.contentType.some THEN media.contentType.val ELSE <<"audio/mp3">>

AudioContent(media) ==
    [type |-> "audio", data |-> base64(media.buffer), mimeType |-> MimeType(media)]

IsAudioOrVideo(media) == ~(media.kind # "audio" /\ media.kind # "video")

LoadAccepted ==
    /\ pc = "load"
    /\ \E media \in MediaOutcomes(targetPath) :
          /\ IsAudioOrVideo(media)
          /\ Return(AudioContent(media))
    /\ calls' = Append(calls, Call("loadWebMedia", targetPath, <<>>, <<>>, TRUE, <<>>))
    /\ UNCHANGED targetPath
    /\ LoaderFrame

LoadWrongKind ==
    /\ pc = "load"
    /\ \E media \in MediaOutcomes(targetPath) : ~IsAudioOrVideo(media)
    /\ calls' = Append(calls, Call("loadWebMedia", targetPath, <<>>, <<>>, TRUE, <<>>))
    /\ Return(Null)
    /\ UNCHANGED targetPath
    /\ LoaderFrame

\* LoadThrew without the catch around the body: the error leaves the loader
\* and, in a batch, detectAndLoadPromptAudio
LoadThrewUncaught ==
    /\ pc = "load"
    /\ calls' = Append(calls, Call("loadWebMedia", targetPath, <<>>, <<>>, FALSE, <<>>))
    /\ ret' = Thrown
    /\ pc' = IF mode = "batch" THEN "done" ELSE "returned"
    /\ result' = IF mode = "batch" THEN Thrown ELSE result
    /\ UNCHANGED <<mode, params, st, refs, idx, ref, targetPath, promptAudio,
                   loadedCount, skippedCount, rets>>

\* loadWebMedia throws: the catch around the whole body returns null
LoadThrew ==
    /\ pc = "load"
    /\ calls' = Append(calls, Call("loadWebMedia", targetPath, <<>>, <<>>, FALSE, <<>>))
    /\ Return(Null)
    /\ UNCHANGED targetPath
    /\ LoaderFrame

Next ==
    \/ GateReject \/ ReturnNoRefs \/ BeginLoop \/ CallLoader \/ LoopReturn \/ LoopExit
    \/ RejectUrl \/ ResolvePath \/ AssertResolved \/ AssertRejected
    \/ StatFound \/ StatMissing \/ LoadAccepted \/ LoadWrongKind \/ LoadThrew

Spec == Init /\ [][Next]_vars

\* ------------------------------------------------------------------------
\* Properties
\* ------------------------------------------------------------------------

\* the reference the loader was called with in call c
RefOf(c) == IF mode = "batch" THEN refs[c.idx] ELSE ref

\* the model's input list contains "audio" or "image"
Qualifies ==
    /\ params.model.input.some
    /\ \E i \in DOMAIN params.model.input.val :
          params.model.input.val[i] \in {"audio", "image"}

Rejections == {k \in DOMAIN calls : calls[k].fn = "assertSandboxPath" /\ ~calls[k].ok}

LoadThrows == {k \in DOMAIN calls : calls[k].fn = "loadWebMedia" /\ ~calls[k].ok}

IsIO(c) == c.fn \in {"stat", "loadWebMedia"}

\* C1: sandbox law.  Once the sandbox assertion has rejected the path of a
\* reference, the loader returns null for that reference and calls neither
\* fs.stat nor loadWebMedia for it; with a sandbox root set, every fs.stat and
\* loadWebMedia call of a reference comes after a successful assertion for it.
C1_SandboxLaw ==
    /\ \A k \in Rejections :
          /\ \A j \in DOMAIN calls : j > k => calls[j].idx # calls[k].idx
          /\ idx = calls[k].idx => pc = "returned" /\ ret = Null
          /\ calls[k].idx <= Len(rets) => rets[calls[k].idx].ret = Null
    /\ \A k \in DOMAIN calls :
          (IsIO(calls[k]) /\ Truthy(params.sandboxRoot)) =>
              \E j \in 1..(k - 1) :
                  /\ calls[j].fn = "assertSandboxPath" /\ calls[j].ok
                  /\ calls[j].idx = calls[k].idx

\* a path that leaves the sandbox root by traversal was rejected and the
\* loader returned null
C1_Witness ==
    \E k \in Rejections :
        /\ ~Inside(resolve(calls[k].root, calls[k].path), calls[k].root)
        /\ pc = "returned" /\ ret = Null /\ idx = calls[k].idx

\* the bytes loadWebMedia read in the last call of the current reference
LastLoadPath ==
    calls[Max({k \in DOMAIN calls : calls[k].fn = "loadWebMedia" /\ calls[k].idx = idx})].path

\* C2: loadAudioFromRef never raises past its boundary.  Whatever the
\* reference, the options and the outcomes of the sandbox assertion, fs.stat
\* and loadWebMedia, a call that has ended returned null or a complete audio
\* content (type audio, the base64 of the bytes read, a mime type), never an
\* error.
C2_NeverRaises ==
    /\ pc = "returned" =>
          \/ ret = Null
          \/ /\ DOMAIN ret = {"type", "data", "mimeType"}
             /\ ret.type = "audio"
             /\ ret.data = base64(<<"bytes of">> \o LastLoadPath)
             /\ ret.mimeType \in {<<"audio/wav">>, <<"video/mp4">>, <<"audio/mp3">>}
    /\ ret # Thrown

\* loadWebMedia threw and the loader returned null
C2_Witness == pc = "returned" /\ ret = Null /\ mode = "direct" /\ LoadThrows # {}

\* C3 as stated: when loadWebMedia throws during detectAndLoadPromptAudio,
\* the call ends with that error raised to its caller.
C3_LoaderFailurePropagates ==
    (mode = "batch" /\ pc = "done" /\ LoadThrows # {}) => result = Thrown

\* C3 as amended: when loadWebMedia throws during detectAndLoadPromptAudio,
\* loadAudioFromRef catches the error and returns null, the reference is
\* counted as skipped and the call returns its result.
C3_LoaderFailureSkipped ==
    mode = "batch" =>
        /\ result # Thrown
        /\ \A k \in LoadThrows :
              /\ idx = calls[k].idx => pc = "returned" /\ ret = Null
              /\ calls[k].idx <= Len(rets) => rets[calls[k].idx].ret = Null
        /\ pc = "done" =>
              /\ result.status = "ok"
              /\ LoadThrows # {} => result.skippedCount >= Cardinality(LoadThrows)

\* a batch ended after loadWebMedia threw for one reference and loaded another
C3_Witness ==
    /\ mode = "batch" /\ pc = "done" /\ LoadThrows # {}
    /\ result.loadedCount >= 1

\* C4: for a qualifying model every detected reference is passed to the
\* loader exactly once, in order, whatever the outcome of the others, and on
\* return loadedCount + skippedCount is the number of detected references,
\* loadedCount being the number of loader results that are not null.
C4_EveryRefCountedOnce ==
    (mode = "batch" /\ Qualifies) =>
        /\ pc \in {"loop", "enter", "assert", "stat", "load", "returned"} =>
              /\ Len(rets) = idx - 1
              /\ loadedCount + skippedCount = Len(rets)
        /\ pc = "done" =>
              /\ LET detected == detectAudioReferences(params.prompt) IN
                    /\ [i \in DOMAIN rets |-> rets[i].ref] = detected
                    /\ result.loadedCount + result.skippedCount = Len(detected)
              /\ result.loadedCount
                    = Cardinality({i \in DOMAIN rets : rets[i].ret # Null})
              /\ \A i \in DOMAIN rets :
                    Cardinality({k \in DOMAIN calls :
                                    calls[k].idx = i /\ calls[k].fn = "loadWebMedia"}) <= 1

\* a batch in which the first reference failed and the second one was loaded
C4_Witness ==
    /\ mode = "batch" /\ pc = "done" /\ Len(rets) = 2
    /\ rets[1].ret = Null /\ rets[2].ret # Null

\* C5: capability gate.  When the model's input list is absent or contains
\* neither "audio" nor "image", detectAndLoadPromptAudio scans nothing, calls
\* no primitive and returns {audio: [], loadedCount: 0, skippedCount: 0},
\* whatever the prompt and the carried audio.
C5_CapabilityGate ==
    (mode = "batch" /\ ~Qualifies) =>
        /\ calls = <<>> /\ refs = <<>> /\ rets = <<>>
        /\ pc \in {"start", "done"}
        /\ pc = "done" => result = OkResult(<<>>, 0, 0)

\* a model without audio and image returned the empty result for a prompt
\* with references and carried audio
C5_Witness ==
    /\ mode = "batch" /\ ~Qualifies /\ pc = "done"
    /\ params.model.input.some
    /\ detectAudioReferences(params.prompt) # <<>>
    /\ params.existingAudio.some

\* what each pattern finds when it scans the prompt alone
MarkerAlone == MarkerLoop(params.prompt, 1, EmptySt)

UrlAlone == UrlLoop(params.prompt, 1, EmptySt)

PathAlone == PathLoop(params.prompt, 1, EmptySt)

Range(f) == {f[i] : i \in DOMAIN f}

Key(r) == toLowerCase(r.raw)

Keys(rs) == {Key(rs[i]) : i \in DOMAIN rs}

\* the place in the precedence order of the first pattern that produces r,
\* mk being the keys the marker pattern produces and us those of the URL pattern
Rank(r, mk, us) == IF Key(r) \in mk THEN 1 ELSE IF Key(r) \in us THEN 2 ELSE 3

\* C6: de-duplication.  No two detected references have raw values that are
\* equal ignoring case; a raw value that several patterns produce is emitted
\* as the earliest pattern produces it (marker, then file:// URL, then bare
\* path); the references are in that order.
C6_DedupFirstMatchWins ==
    pc = "detected" =>
        LET m == MarkerAlone
            u == UrlAlone
            p == PathAlone
            mk == Keys(m.refs)
        IN /\ \A i, j \in DOMAIN refs : i < j => Key(refs[i]) # Key(refs[j])
           /\ \A i \in DOMAIN refs :
                 refs[i] \in Range(CASE Rank(refs[i], mk, u.seen) = 1 -> m.refs
                                     [] Rank(refs[i], mk, u.seen) = 2 -> u.refs
                                     [] OTHER -> p.refs)
           /\ \A i, j \in DOMAIN refs :
                 i < j => Rank(refs[i], mk, u.seen) <= Rank(refs[j], mk, u.seen)
           /\ Keys(refs) = mk \cup Keys(u.refs) \cup Keys(p.refs)

\* a raw value that the marker pattern and a later pattern both produce
C6_Witness ==
    /\ pc = "detected" /\ Len(refs) >= 2
    /\ \E r \in Range(refs) :
          /\ Key(r) \in Keys(MarkerAlone.refs)
          /\ Key(r) \in UrlAlone.seen \cup Keys(PathAlone.refs)

\* C7 as stated: a path referenced in several surface forms yields one
\* reference, so no two detected references name the same path.
C7_OneRefPerPath ==
    pc = "detected" =>
        \A i, j \in DOMAIN refs : i < j => refs[i].resolved # refs[j].resolved

\* C7 as amended: a reference that the marker pattern and the bare path
\* pattern both produce with raw values equal ignoring case is detected
\* exactly once.
C7_OneRefPerRaw ==
    pc = "detected" =>
        \A key \in Keys(MarkerAlone.refs) \cap Keys(PathAlone.refs) :
            Cardinality({i \in DOMAIN refs : Key(refs[i]) = key}) = 1

\* a path written in a marker and bare, in different case
C7_Witness ==
    /\ pc = "detected"
    /\ \E m \in Range(MarkerAlone.refs), b \in Range(PathAlone.refs) :
          Key(m) = Key(b) /\ m.raw # b.raw

\* the contents of the references that were loaded, in the order of rets
RECURSIVE LoadedOf(_)
LoadedOf(rs) ==
    IF rs = <<>> THEN <<>>
    ELSE (IF Head(rs).ret # Null THEN <<Head(rs).ret>> ELSE <<>>) \o LoadedOf(Tail(rs))

CarriedAudio == IF params.existingAudio.some THEN params.existingAudio.val ELSE <<>>

\* C8: accumulation order.  For a qualifying model and a prompt with a
\* reference, the returned audio is the carried audio, unchanged, followed by
\* the contents of the loaded references in detection order; its length is
\* the length of the carried audio plus loadedCount.
C8_AccumulationOrder ==
    (mode = "batch" /\ pc = "done" /\ Qualifies
        /\ detectAudioReferences(params.prompt) # <<>>) =>
        /\ result.audio = CarriedAudio \o LoadedOf(rets)
        /\ Len(result.audio) = Len(CarriedAudio) + result.loadedCount
        /\ \A i \in DOMAIN rets :
              /\ rets[i].ref = refs[i]
              /\ rets[i].ret # Null =>
                    \E k \in DOMAIN calls :
                        /\ calls[k].idx = i /\ calls[k].fn = "loadWebMedia"
                        /\ rets[i].ret.data = base64(<<"bytes of">> \o calls[k].path)

\* carried audio, then a skipped reference, then two loaded ones
C8_Witness ==
    /\ mode = "batch" /\ pc = "done" /\ params.existingAudio.some
    /\ result.loadedCount = 2
    /\ result.audio[2] # result.audio[3]

\* the path the loader works on after its resolution step
Resolved(r) ==
    IF isAbsolute(r.resolved) THEN r.resolved
    ELSE resolve(IF params.sandboxRoot.some THEN params.sandboxRoot.val
                 ELSE params.workspaceDir, r.resolved)

\* C9: canonical path.  The sandbox assertion is called only with a sandbox
\* root set, with cwd and root equal to it, on the reference's path made
\* absolute against it; after it succeeded, fs.stat and loadWebMedia get the
\* path it returned.  Without a sandbox root they get the reference's path,
\* made absolute against workspaceDir when no sandboxRoot is given.
C9_CanonicalPath ==
    \A k \in DOMAIN calls :
        /\ calls[k].fn = "assertSandboxPath" =>
              /\ Truthy(params.sandboxRoot)
              /\ calls[k].cwd = params.sandboxRoot.val
              /\ calls[k].root = params.sandboxRoot.val
              /\ calls[k].path = Resolved(RefOf(calls[k]))
        /\ (IsIO(calls[k]) /\ Truthy(params.sandboxRoot)) =>
              \E j \in 1..(k - 1) :
                  /\ calls[j].fn = "assertSandboxPath" /\ calls[j].ok
                  /\ calls[j].idx = calls[k].idx
                  /\ calls[k].path = calls[j].out
        /\ (IsIO(calls[k]) /\ ~Truthy(params.sandboxRoot)) =>
              calls[k].path = Resolved(RefOf(calls[k]))

\* the assertion returned a path other than the one submitted and
\* loadWebMedia read that path
C9_Witness ==
    \E j, k \in DOMAIN calls :
        /\ j < k /\ calls[j].idx = calls[k].idx
        /\ calls[j].fn = "assertSandboxPath" /\ calls[j].ok
        /\ calls[j].out # calls[j].path
        /\ calls[k].fn = "loadWebMedia" /\ calls[k].path = calls[j].out

\* C10: every file:// URL of the text that ends in a recognized extension is
\* emitted with the URL converted to a path as its resolved value, or dropped
\* when the conversion fails, also inside a marker; no detected reference has
\* a file:// URL as its resolved value.
C10_FileUrlsConverted ==
    pc = "detected" =>
        /\ \A i \in DOMAIN refs : refs[i].resolved[1] # "file://"
        /\ \A i \in DOMAIN refs :
              Key(refs[i]) \in UrlAlone.seen =>
                  /\ fileURLToPath(refs[i].raw).ok
                  /\ refs[i].resolved = fileURLToPath(refs[i].raw).path

=============================================================================
